---- MODULE Spec2Model ----
(***************************************************************************)
(* State-machine model of the task manager script (src/script.js).         *)
(*                                                                         *)
(* Text is a sequence of one-character strings, so that trim, toLowerCase, *)
(* includes, Number.toString and JSON.stringify / JSON.parse are computed  *)
(* as conversions and not assumed.  An id is a JavaScript value that is    *)
(* either a string or a number: [num |-> FALSE, s |-> chars] is the string *)
(* chars, [num |-> TRUE, s |-> digits] the number written with those       *)
(* decimal digits.  Strict equality (===) of two ids is equality of the    *)
(* two records.                                                            *)
(***************************************************************************)
EXTENDS Integers, Sequences, FiniteSets, TLC

VARIABLES
  tasks,          \* let tasks: the in-memory collection, newest first
  idCounter,      \* let idCounter
  now,            \* the clock read by Date.now()
  writable,       \* whether localStorage.setItem succeeds in this session
  localStorage,   \* the two durable slots, by key
  currentFilter,  \* let currentFilter
  searchTerm,     \* let searchTerm
  listRoot,       \* the <li> items under .task-list, in document order
  countEl,        \* text of the .count element
  emptyHidden,    \* whether .empty-state carries the hidden attribute
  bodyLight,      \* whether document.body carries the class "light"
  themeBtnText,   \* text of the theme toggle button
  pc,             \* position of the script's async body
  source,         \* which step of load() supplied the collection
  last            \* the last event handled and the store call it made

vars == <<tasks, idCounter, now, writable, localStorage, currentFilter, searchTerm,
          listRoot, countEl, emptyHidden, bodyLight, themeBtnText, pc,
          source, last>>

-----------------------------------------------------------------------------
(* Bounds of the model *)

\* The value Date.now() returns when the script starts.
StartNow == 35
\* How many ids uid() hands out in one session.
MaxUid == 1

-----------------------------------------------------------------------------
(* Text *)

WS == {" "}

RECURSIVE TrimStart(_)
TrimStart(s) ==
  IF s = <<>> THEN s
  ELSE IF Head(s) \in WS THEN TrimStart(Tail(s)) ELSE s

RECURSIVE TrimEnd(_)
TrimEnd(s) ==
  IF s = <<>> THEN s
  ELSE IF s[Len(s)] \in WS THEN TrimEnd(SubSeq(s, 1, Len(s) - 1)) ELSE s

\* String.prototype.trim
Trim(s) == TrimEnd(TrimStart(s))

UpperChars == <<"A", "B", "L">>
LowerChars == <<"a", "b", "l">>

LowerChar(c) ==
  IF \E i \in 1..Len(UpperChars) : UpperChars[i] = c
  THEN LowerChars[CHOOSE i \in 1..Len(UpperChars) : UpperChars[i] = c]
  ELSE c

\* String.prototype.toLowerCase
ToLowerCase(s) == [i \in 1..Len(s) |-> LowerChar(s[i])]

\* String.prototype.includes
Includes(s, t) ==
  \E i \in 0..(Len(s) - Len(t)) : SubSeq(s, i + 1, i + Len(t)) = t

Base36Chars ==
  <<"0", "1", "2", "3", "4", "5", "6", "7", "8", "9", "a", "b", "c", "d",
    "e", "f", "g", "h", "i", "j", "k", "l", "m", "n", "o", "p", "q", "r",
    "s", "t", "u", "v", "w", "x", "y", "z">>

DecimalChars == SubSeq(Base36Chars, 1, 10)

RECURSIVE ToRadix(_, _)
\* Number.prototype.toString(radix) of a non-negative integer
ToRadix(n, radix) ==
  IF n < radix THEN <<Base36Chars[n + 1]>>
  ELSE ToRadix(n \div radix, radix) \o <<Base36Chars[(n % radix) + 1]>>

\* String(n) of a non-negative integer
Decimal(n) == ToRadix(n, 10)

IsDigit(c) == \E i \in 1..Len(DecimalChars) : DecimalChars[i] = c

DigitValue(c) == (CHOOSE i \in 1..Len(DecimalChars) : DecimalChars[i] = c) - 1

RECURSIVE ParseDecimal(_)
\* the number a run of decimal digits denotes
ParseDecimal(s) ==
  IF s = <<>> THEN 0
  ELSE 10 * ParseDecimal(SubSeq(s, 1, Len(s) - 1)) + DigitValue(s[Len(s)])

-----------------------------------------------------------------------------
(* Ids *)

StrId(s) == [num |-> FALSE, s |-> s]
NumId(n) == [num |-> TRUE, s |-> Decimal(n)]

\* the empty string: falsy, as an absent id is
NoId == StrId(<<>>)

\* truthiness of an id value under ||
Truthy(id) == id.s # <<>> /\ ~(id.num /\ id.s = <<"0">>)

\* the string setAttribute('data-id', id) stores
AttrOf(id) == id.s

\* the token uid() returns for counter value n
uidToken(n) == StrId(ToRadix(n, 36))

-----------------------------------------------------------------------------
(* JSON text of the task collection.  Member names are fixed by the object *)
(* literals of the script and are left out of the text: the members stand  *)
(* in the order id, title, description, completed, createdAt.  The         *)
(* alphabet has no character that JSON escapes.                            *)

Q == "\""

StrJson(s) == <<Q>> \o s \o <<Q>>

IdJson(id) == IF id.num THEN id.s ELSE StrJson(id.s)

BoolJson(b) == IF b THEN <<"true">> ELSE <<"false">>

TaskJson(t) ==
  <<"{">> \o IdJson(t.id) \o <<",">> \o StrJson(t.title) \o <<",">>
          \o StrJson(t.description) \o <<",">> \o BoolJson(t.completed)
          \o <<",">> \o Decimal(t.createdAt) \o <<"}">>

RECURSIVE JoinTasks(_)
JoinTasks(ts) ==
  IF ts = <<>> THEN <<>>
  ELSE IF Len(ts) = 1 THEN TaskJson(ts[1])
  ELSE TaskJson(ts[1]) \o <<",">> \o JoinTasks(Tail(ts))

\* JSON.stringify(tasks)
Stringify(ts) == <<"[">> \o JoinTasks(ts) \o <<"]">>

\* index of the first c at or after i, 0 when there is none
FindFrom(text, i, c) ==
  IF \E j \in i..Len(text) : text[j] = c
  THEN CHOOSE j \in i..Len(text) :
         text[j] = c /\ \A k \in i..(j - 1) : text[k] # c
  ELSE 0

\* index of the last character of the digit run that starts at i
DigitsEnd(text, i) ==
  CHOOSE j \in i..Len(text) :
    /\ \A k \in i..j : IsDigit(text[k])
    /\ (j = Len(text) \/ ~IsDigit(text[j + 1]))

NoValue == [ok |-> FALSE, kind |-> "none", s |-> <<>>, next |-> 0]

\* the JSON value that starts at i: a string, a boolean or a number
ParseValue(text, i) ==
  IF i > Len(text) THEN NoValue
  ELSE IF text[i] = Q THEN
    LET j == FindFrom(text, i + 1, Q) IN
    IF j = 0 THEN NoValue
    ELSE [ok |-> TRUE, kind |-> "str", s |-> SubSeq(text, i + 1, j - 1),
          next |-> j + 1]
  ELSE IF text[i] \in {"true", "false"} THEN
    [ok |-> TRUE, kind |-> "bool", s |-> <<text[i]>>, next |-> i + 1]
  ELSE IF IsDigit(text[i]) THEN
    LET j == DigitsEnd(text, i) IN
    [ok |-> TRUE, kind |-> "num", s |-> SubSeq(text, i, j), next |-> j + 1]
  ELSE NoValue

At(text, i) == IF i >= 1 /\ i <= Len(text) THEN text[i] ELSE ""

EmptyTask ==
  [id |-> NoId, title |-> <<>>, description |-> <<>>, completed |-> FALSE,
   createdAt |-> 0]

NoValues == [ok |-> FALSE, vals |-> <<>>, next |-> 0]

RECURSIVE ParseValues(_, _, _)
\* k values separated by commas, the first at i
ParseValues(text, i, k) ==
  LET v == ParseValue(text, i) IN
  IF ~v.ok THEN NoValues
  ELSE IF k = 1 THEN [ok |-> TRUE, vals |-> <<v>>, next |-> v.next]
  ELSE IF At(text, v.next) # "," THEN NoValues
  ELSE LET rest == ParseValues(text, v.next + 1, k - 1) IN
       IF ~rest.ok THEN NoValues
       ELSE [ok |-> TRUE, vals |-> <<v>> \o rest.vals, next |-> rest.next]

\* the kinds of the members of a task object
TaskKinds(vals) ==
  /\ vals[1].kind \in {"str", "num"}
  /\ vals[2].kind = "str"
  /\ vals[3].kind = "str"
  /\ vals[4].kind = "bool"
  /\ vals[5].kind = "num"

TaskOf(vals) ==
  [id |-> [num |-> vals[1].kind = "num", s |-> vals[1].s],
   title |-> vals[2].s,
   description |-> vals[3].s,
   completed |-> vals[4].s = <<"true">>,
   createdAt |-> ParseDecimal(vals[5].s)]

NoTask == [ok |-> FALSE, task |-> EmptyTask, next |-> 0]

\* the task object that starts at i
ParseTask(text, i) ==
  IF At(text, i) # "{" THEN NoTask
  ELSE LET r == ParseValues(text, i + 1, 5) IN
       IF r.ok /\ At(text, r.next) = "}" /\ TaskKinds(r.vals)
       THEN [ok |-> TRUE, task |-> TaskOf(r.vals), next |-> r.next + 1]
       ELSE NoTask

Thrown == [ok |-> FALSE, isArray |-> FALSE, val |-> <<>>]

RECURSIVE ParseTasks(_, _, _)
\* the task objects from i to the closing bracket, after those of acc
ParseTasks(text, i, acc) ==
  LET r == ParseTask(text, i) IN
  IF ~r.ok THEN Thrown
  ELSE IF At(text, r.next) = "," THEN
    ParseTasks(text, r.next + 1, Append(acc, r.task))
  ELSE IF At(text, r.next) = "]" /\ r.next = Len(text) THEN
    [ok |-> TRUE, isArray |-> TRUE, val |-> Append(acc, r.task)]
  ELSE Thrown

\* JSON.parse(text): ok is FALSE when it throws.  The texts it knows are an
\* array of task objects, the empty object and a number.
JsonParse(text) ==
  IF text = <<"[", "]">> THEN [ok |-> TRUE, isArray |-> TRUE, val |-> <<>>]
  ELSE IF At(text, 1) = "[" THEN ParseTasks(text, 2, <<>>)
  ELSE IF text = <<"{", "}">> THEN [ok |-> TRUE, isArray |-> FALSE, val |-> <<>>]
  ELSE IF text # <<>> /\ \A k \in 1..Len(text) : IsDigit(text[k]) THEN
    [ok |-> TRUE, isArray |-> FALSE, val |-> <<>>]
  ELSE Thrown

-----------------------------------------------------------------------------
(* localStorage *)

STORAGE_KEY == "taskManager.tasks.v1"
THEME_KEY == "taskManager.theme.v1"

\* what getItem returns for a key that was never set
Null == [has |-> FALSE, text |-> <<>>]

Item(text) == [has |-> TRUE, text |-> text]

\* localStorage.setItem(key, text)
setItem(ls, key, text) == [ls EXCEPT ![key] = Item(text)]

\* truthiness of what getItem returned
RawTruthy(raw) == raw.has /\ raw.text # <<>>

-----------------------------------------------------------------------------
(* Task model *)

Task(id, title, description, completed, createdAt) ==
  [id |-> id, title |-> title, description |-> description,
   completed |-> completed, createdAt |-> createdAt]

\* normalizeTask(t), with n the counter and clock the time of the call.  An
\* absent member is the falsy value of its kind: the empty string, 0.
normalizeTask(t, n, clock) ==
  Task(IF Truthy(t.id) THEN t.id ELSE uidToken(n),
       Trim(t.title), Trim(t.description), t.completed,
       IF t.createdAt # 0 THEN t.createdAt ELSE clock)

RECURSIVE NormalizeAll(_, _, _)
\* items.map(t => normalizeTask(t)): the tasks and the counter afterwards
NormalizeAll(items, n, clock) ==
  IF items = <<>> THEN [tasks |-> <<>>, idCounter |-> n]
  ELSE LET t == normalizeTask(Head(items), n, clock)
           n2 == IF Truthy(Head(items).id) THEN n ELSE n + 1
           rest == NormalizeAll(Tail(items), n2, clock)
       IN [tasks |-> <<t>> \o rest.tasks, idCounter |-> rest.idCounter]

\* the shape of default_task.json mapped to the internal one
FromFile(item) ==
  [id |-> item.id, title |-> item.task, description |-> item.description,
   completed |-> item.isComplete, createdAt |-> item.createdAt]

\* an <li> of the list: its data-id attribute (empty when absent), the text
\* of .task-title and of .task-desc (empty when the node is absent), the
\* checkbox and the class "completed"
Li(dataId, title, desc, checked, completedClass) ==
  [dataId |-> dataId, title |-> title, desc |-> desc, checked |-> checked,
   completedClass |-> completedClass]

TaskWord == <<"T", "a", "s", "k", " ">>

\* the task load() reads from the i-th pre-rendered <li>
FromLi(li, i, n, clock) ==
  Task(IF li.dataId # <<>> THEN StrId(li.dataId) ELSE uidToken(n),
       IF Trim(li.title) # <<>> THEN Trim(li.title)
       ELSE TaskWord \o Decimal(i),
       Trim(li.desc),
       li.checked \/ li.completedClass,
       clock)

RECURSIVE FromLis(_, _, _, _)
\* existing.map((li, i) => ...), from the i-th item on
FromLis(lis, i, n, clock) ==
  IF i > Len(lis) THEN [tasks |-> <<>>, idCounter |-> n]
  ELSE LET t == FromLi(lis[i], i, n, clock)
           n2 == IF lis[i].dataId # <<>> THEN n ELSE n + 1
           rest == FromLis(lis, i + 1, n2, clock)
       IN [tasks |-> <<t>> \o rest.tasks, idCounter |-> rest.idCounter]

\* A plausible slip: a stored collection is used only when it has tasks
\* (if (raw && parsed.length)).
loadFromStorageSkipsEmpty(ls) ==
  LET raw == ls[STORAGE_KEY]
      parsed == JsonParse(raw.text)
  IN IF ~RawTruthy(raw) \/ ~parsed.ok \/ Len(parsed.val) = 0
     THEN [done |-> FALSE, tasks |-> <<>>]
     ELSE [done |-> TRUE, tasks |-> parsed.val]

\* step 1 of load(): done when load() returns from it.  getItem is taken
\* not to throw.
loadFromStorage(ls) ==
  LET raw == ls[STORAGE_KEY]
      parsed == JsonParse(raw.text)
  IN IF ~RawTruthy(raw) \/ ~parsed.ok
     THEN [done |-> FALSE, tasks |-> <<>>]
     ELSE [done |-> TRUE, tasks |-> IF parsed.isArray THEN parsed.val ELSE <<>>]

-----------------------------------------------------------------------------
(* View *)

\* A plausible slip: with a search term, the term alone decides.
VisibleSearchFirst(task, filter, term) ==
  IF term # <<>> THEN Includes(ToLowerCase(task.title), term)
  ELSE IF filter = "completed" THEN task.completed
  ELSE IF filter = "incomplete" THEN ~task.completed
  ELSE TRUE

\* the predicate of tasks.filter in render()
Visible(task, filter, term) ==
  IF filter = "completed" /\ ~task.completed THEN FALSE
  ELSE IF filter = "incomplete" /\ task.completed THEN FALSE
  ELSE IF term # <<>> THEN Includes(ToLowerCase(task.title), term)
  ELSE TRUE

\* const filtered = tasks.filter(...)
Filtered(ts, filter, term) ==
  SelectSeq(ts, LAMBDA task : Visible(task, filter, term))

\* the <li> render() builds for a task
RenderLi(task) ==
  Li(AttrOf(task.id), task.title, task.description, task.completed,
     task.completed)

RenderList(ts) == [i \in 1..Len(ts) |-> RenderLi(ts[i])]

\* A plausible slip: the indicators follow the whole collection.
renderCountsAll(ts, filter, term) ==
  LET filtered == Filtered(ts, filter, term) IN
  /\ emptyHidden' = (Len(ts) # 0)
  /\ listRoot' = RenderList(filtered)
  /\ countEl' = Decimal(Len(ts))

\* render()
render(ts, filter, term) ==
  LET filtered == Filtered(ts, filter, term) IN
  /\ emptyHidden' = (Len(filtered) # 0)
  /\ listRoot' = RenderList(filtered)
  /\ countEl' = Decimal(Len(filtered))

\* save(): ok is FALSE when localStorage.setItem throws
save(ts, ok) ==
  localStorage' =
    IF ok THEN setItem(localStorage, STORAGE_KEY, Stringify(ts))
    ELSE localStorage

-----------------------------------------------------------------------------
(* Operations of the store.  Each gives the value returned, the collection *)
(* and the counter afterwards, and whether save() and render() are reached.*)

\* tasks.findIndex(t => t.id === id), counted from 1; 0 when there is none
findIndex(ts, id) ==
  IF \E i \in 1..Len(ts) : ts[i].id = id
  THEN CHOOSE i \in 1..Len(ts) :
         ts[i].id = id /\ \A k \in 1..(i - 1) : ts[k].id # id
  ELSE 0

Rejected(ts, n) ==
  [ret |-> FALSE, tasks |-> ts, idCounter |-> n, saved |-> FALSE]

Applied(ts, n) ==
  [ret |-> TRUE, tasks |-> ts, idCounter |-> n, saved |-> TRUE]

\* addTask({ title, description })
addTask(ts, n, clock, title, description) ==
  LET t == Trim(title) IN
  IF t = <<>> THEN Rejected(ts, n)
  ELSE Applied(<<Task(uidToken(n), t, Trim(description), FALSE, clock)>> \o ts,
               n + 1)

\* A plausible slip: splice runs without the idx === -1 check, and
\* splice(-1, 1) removes the last task.
removeTaskUnchecked(ts, n, id) ==
  LET idx == findIndex(ts, id) IN
  IF ts = <<>> THEN Rejected(ts, n)
  ELSE IF idx = 0 THEN Applied(SubSeq(ts, 1, Len(ts) - 1), n)
  ELSE Applied(SubSeq(ts, 1, idx - 1) \o SubSeq(ts, idx + 1, Len(ts)), n)

\* removeTask(id)
removeTask(ts, n, id) ==
  LET idx == findIndex(ts, id) IN
  IF idx = 0 THEN Rejected(ts, n)
  ELSE Applied(SubSeq(ts, 1, idx - 1) \o SubSeq(ts, idx + 1, Len(ts)), n)

\* toggleComplete(id, completed)
toggleComplete(ts, n, id, completed) ==
  LET idx == findIndex(ts, id) IN
  IF idx = 0 THEN Rejected(ts, n)
  ELSE Applied([ts EXCEPT ![idx].completed = completed], n)

\* what prompt() returns: null when cancelled, else the text
Cancelled == [cancel |-> TRUE, text |-> <<>>]
Answer(text) == [cancel |-> FALSE, text |-> text]

\* the edit branch of the list's click listener
editTitle(ts, n, id, answer) ==
  LET idx == findIndex(ts, id) IN
  IF idx = 0 \/ answer.cancel THEN Rejected(ts, n)
  ELSE Applied([ts EXCEPT ![idx].title =
                  IF Trim(answer.text) # <<>> THEN Trim(answer.text) ELSE @],
               n)

-----------------------------------------------------------------------------
(* Theme *)

LIGHT == <<"l", "i", "g", "h", "t">>
DARK == <<"d", "a", "r", "k">>

\* applyTheme(theme)
applyTheme(theme) ==
  /\ bodyLight' = (theme = LIGHT)
  /\ themeBtnText' = IF theme = LIGHT THEN "Dark Mode" ELSE "Night Mode"

\* A plausible slip: anything but a stored "dark" restores as light.
restoredThemeDarkOnly(ls) == IF ls[THEME_KEY] = Item(DARK) THEN DARK ELSE LIGHT

\* t === 'light' ? 'light' : 'dark', for t = localStorage.getItem(THEME_KEY)
restoredTheme(ls) == IF ls[THEME_KEY] = Item(LIGHT) THEN LIGHT ELSE DARK

\* the "Restore saved theme" block; getItem is taken not to throw
restoreTheme(ls) == applyTheme(restoredTheme(ls))

-----------------------------------------------------------------------------
(* Inputs *)

\* The record of a step: the store operation called ("none" when the
\* handler called none), what it was called with (a title that is "blank" or
\* "text", an id that is "missing" from the collection or "present" in it),
\* the completed value given to toggleComplete, and the value returned.
Last(fn, arg, val, ret) == [fn |-> fn, arg |-> arg, val |-> val, ret |-> ret]

Idle(ev) == Last(ev, "none", FALSE, FALSE)

\* the text has nothing but white space
IsBlank(s) == \A i \in 1..Len(s) : s[i] \in WS

TitleArg(title) == IF IsBlank(title) THEN "blank" ELSE "text"

IdArg(ts, id) ==
  IF \E i \in 1..Len(ts) : ts[i].id = id THEN "present" ELSE "missing"

\* the token of the first uid() of the session
FirstToken == ToRadix(StartNow, 36)

\* a task an earlier session stored, whose counter has reached this one's seed
OldTask == Task(StrId(FirstToken), <<"A", "l">>, <<>>, TRUE, StartNow)

TaskSlotInputs ==
  { Null, Item(<<>>), Item(<<"[">>), Item(<<"{", "}">>),
    Item(Stringify(<<>>)), Item(Stringify(<<OldTask>>)) }

ThemeSlotInputs == { Null, Item(LIGHT), Item(<<"b">>) }

Loose(id, title, description, completed, createdAt) ==
  Task(id, title, description, completed, createdAt)

\* window.DEFAULT_TASKS: undefined, an object that is no array, or an array
DefaultTasksInputs ==
  { [kind |-> "undefined", items |-> <<>>],
    [kind |-> "object", items |-> <<>>],
    [kind |-> "array", items |-> <<>>],
    [kind |-> "array",
     items |-> <<Loose(NoId, <<" ", "b", " ">>, <<>>, FALSE, 0)>>],
    [kind |-> "array",
     items |-> <<Loose(StrId(<<"q">>), <<"A", "l">>, <<>>, TRUE, 7),
                 Loose(StrId(<<"q">>), <<" ">>, <<"A", "l">>, FALSE, 0)>>] }

\* the <li> items of the host markup
ExistingInputs ==
  { <<>>,
    <<Li(<<>>, <<>>, <<>>, FALSE, TRUE),
      Li(FirstToken, <<" ", "b", " ">>, <<>>, TRUE, FALSE)>> }

FileItem(id, task, description, isComplete, createdAt) ==
  [id |-> id, task |-> task, description |-> description,
   isComplete |-> isComplete, createdAt |-> createdAt]

\* what fetch('default_task.json') and resp.json() give
FetchInputs ==
  { [kind |-> "error", data |-> <<>>],
    [kind |-> "notok", data |-> <<>>],
    [kind |-> "object", data |-> <<>>],
    [kind |-> "array", data |-> <<>>],
    [kind |-> "array",
     data |-> <<FileItem(NumId(1), <<"A", "l">>, <<>>, TRUE, 0)>>] }

\* what the user types in the title and the description fields
FormInputs ==
  { [title |-> <<>>, desc |-> <<>>],
    [title |-> <<" ">>, desc |-> <<"A", "l">>],
    [title |-> <<" ", "A", "l", " ">>, desc |-> <<"b", " ">>] }
PromptInputs == { Cancelled, Answer(<<" ">>), Answer(<<" ", "b">>) }
IdInputs == { StrId(FirstToken), StrId(<<"1">>), NumId(1) }
SearchInputs == { <<>>, <<" ", "A", "L", " ">> }
FilterInputs == { "", "all", "completed", "incomplete" }

-----------------------------------------------------------------------------
(* The script *)

Init ==
  /\ tasks = <<>>
  /\ now = StartNow
  /\ idCounter = now
  /\ writable \in BOOLEAN
  /\ localStorage \in
       { [k \in {STORAGE_KEY, THEME_KEY} |->
            IF k = STORAGE_KEY THEN a ELSE b] :
         a \in TaskSlotInputs, b \in ThemeSlotInputs }
  /\ currentFilter = "all"
  /\ searchTerm = <<>>
  /\ listRoot \in ExistingInputs
  /\ countEl = <<"0">>
  /\ emptyHidden = FALSE
  /\ bodyLight = FALSE
  /\ themeBtnText = "Night Mode"
  /\ pc = "start"
  /\ source = "none"
  /\ last = Idle("init")


\* "Initialize" after load(), and the theme block: render(), the restore of
\* the theme, the registration of the theme listener and of the debug API
Initialize(ts) ==
  /\ render(ts, currentFilter, searchTerm)
  /\ restoreTheme(localStorage')
  /\ pc' = "ready"

\* The script from its first line to the first await that suspends: steps
\* 1 to 3 of load() return without suspending, and step 4 awaits fetch.
Bootstrap(defaults) ==
  /\ pc = "start"
  /\ LET s1 == loadFromStorage(localStorage) IN
     IF s1.done THEN
       /\ tasks' = s1.tasks
       /\ source' = "storage"
       /\ UNCHANGED <<idCounter, localStorage>>
       /\ Initialize(s1.tasks)
     ELSE IF defaults.kind = "array" THEN
       LET r == NormalizeAll(defaults.items, idCounter, now) IN
       /\ tasks' = r.tasks
       /\ idCounter' = r.idCounter
       /\ source' = "defaults"
       /\ UNCHANGED localStorage
       /\ Initialize(r.tasks)
     ELSE IF Len(listRoot) # 0 THEN
       LET r == FromLis(listRoot, 1, idCounter, now) IN
       /\ tasks' = r.tasks
       /\ idCounter' = r.idCounter
       /\ source' = "markup"
       /\ save(r.tasks, writable)
       /\ Initialize(r.tasks)
     ELSE
       /\ pc' = "fetching"
       /\ UNCHANGED <<tasks, idCounter, source, localStorage, listRoot,
                      countEl, emptyHidden, bodyLight, themeBtnText>>
  /\ last' = Idle("load")
  /\ UNCHANGED <<now, writable, currentFilter, searchTerm>>

\* The rest of step 4 of load(), once fetch has settled, then "Initialize".
\* The clock has advanced while the request was in flight; within one run of
\* a handler every Date.now() gives the same value.
FetchDone(resp) ==
  /\ pc = "fetching"
  /\ now' = now + 1
  /\ IF resp.kind = "array" /\ Len(resp.data) # 0 THEN
       LET r == NormalizeAll([i \in 1..Len(resp.data) |-> FromFile(resp.data[i])],
                             idCounter, now') IN
       /\ tasks' = r.tasks
       /\ idCounter' = r.idCounter
       /\ source' = "file"
       /\ save(r.tasks, writable)
       /\ Initialize(r.tasks)
     ELSE
       /\ tasks' = <<>>
       /\ source' = "empty"
       /\ UNCHANGED <<idCounter, localStorage>>
       /\ Initialize(<<>>)
  /\ last' = Idle("load")
  /\ UNCHANGED <<writable, currentFilter, searchTerm>>

\* the listeners of the form, the list, the search box and the filters are
\* registered before load() is awaited
Listening == pc \in {"fetching", "ready"}

\* the theme listener and window.TaskManager exist once load() has returned
Ready == pc = "ready"

CanAdd == idCounter < StartNow + MaxUid

\* A plausible slip: save() lets the exception of setItem through, and
\* render() is not reached.
CommitUncaught(r) ==
  /\ tasks' = r.tasks
  /\ idCounter' = r.idCounter
  /\ IF r.saved /\ writable
     THEN save(r.tasks, writable) /\ render(r.tasks, currentFilter, searchTerm)
     ELSE UNCHANGED <<localStorage, listRoot, countEl, emptyHidden>>

\* the effect of a store operation that gave r
Commit(r) ==
  /\ tasks' = r.tasks
  /\ idCounter' = r.idCounter
  /\ IF r.saved
     THEN save(r.tasks, writable) /\ render(r.tasks, currentFilter, searchTerm)
     ELSE UNCHANGED <<localStorage, listRoot, countEl, emptyHidden>>

\* the form's submit listener
Submit(title, desc) ==
  /\ Listening
  /\ Trim(title) = <<>> \/ CanAdd
  /\ IF Trim(title) = <<>> THEN
       /\ UNCHANGED <<tasks, idCounter, localStorage, listRoot, countEl,
                      emptyHidden>>
       /\ last' = Idle("submit")
     ELSE
       LET r == addTask(tasks, idCounter, now, Trim(title), Trim(desc)) IN
       /\ Commit(r)
       /\ last' = Last("addTask", TitleArg(Trim(title)), FALSE, r.ret)
  /\ UNCHANGED <<now, writable, currentFilter, searchTerm, bodyLight,
                 themeBtnText, pc, source>>

\* window.TaskManager.addTask(t)
ApiAddTask(title, desc) ==
  /\ Ready
  /\ Trim(title) = <<>> \/ CanAdd
  /\ LET r == addTask(tasks, idCounter, now, title, desc) IN
     /\ Commit(r)
     /\ last' = Last("addTask", TitleArg(title), FALSE, r.ret)
  /\ UNCHANGED <<now, writable, currentFilter, searchTerm, bodyLight,
                 themeBtnText, pc, source>>

\* window.TaskManager.removeTask(id)
ApiRemoveTask(id) ==
  /\ Ready
  /\ LET r == removeTask(tasks, idCounter, id) IN
     /\ Commit(r)
     /\ last' = Last("removeTask", IdArg(tasks, id), FALSE, r.ret)
  /\ UNCHANGED <<now, writable, currentFilter, searchTerm, bodyLight,
                 themeBtnText, pc, source>>

\* a click on the delete button of the i-th <li>
ClickDelete(i) ==
  /\ Listening
  /\ i \in 1..Len(listRoot)
  /\ LET id == StrId(listRoot[i].dataId)
         r == removeTask(tasks, idCounter, id) IN
     /\ Commit(r)
     /\ last' = Last("removeTask", IdArg(tasks, id), FALSE, r.ret)
  /\ UNCHANGED <<now, writable, currentFilter, searchTerm, bodyLight,
                 themeBtnText, pc, source>>

\* a click on the edit button of the i-th <li>, answered by answer
ClickEdit(i, answer) ==
  /\ Listening
  /\ i \in 1..Len(listRoot)
  /\ LET id == StrId(listRoot[i].dataId)
         r == editTitle(tasks, idCounter, id, answer) IN
     /\ Commit(r)
     /\ last' = Last("editTitle",
                     IF answer.cancel THEN "cancel" ELSE TitleArg(answer.text),
                     FALSE, r.ret)
  /\ UNCHANGED <<now, writable, currentFilter, searchTerm, bodyLight,
                 themeBtnText, pc, source>>

\* a change of the checkbox of the i-th <li>
Change(i) ==
  /\ Listening
  /\ i \in 1..Len(listRoot)
  /\ LET id == StrId(listRoot[i].dataId)
         r == toggleComplete(tasks, idCounter, id, ~listRoot[i].checked) IN
     /\ Commit(r)
     /\ last' = Last("toggleComplete", IdArg(tasks, id),
                     ~listRoot[i].checked, r.ret)
  /\ UNCHANGED <<now, writable, currentFilter, searchTerm, bodyLight,
                 themeBtnText, pc, source>>

\* the search box's input listener
SearchInput(value) ==
  /\ Listening
  /\ searchTerm' = Trim(ToLowerCase(value))
  /\ render(tasks, currentFilter, searchTerm')
  /\ last' = Idle("search")
  /\ UNCHANGED <<tasks, idCounter, now, writable, localStorage, currentFilter,
                 bodyLight, themeBtnText, pc, source>>

\* a click on a filter button whose data-filter attribute is f
FilterClick(f) ==
  /\ Listening
  /\ IF f = "" THEN
       /\ UNCHANGED <<currentFilter, listRoot, countEl, emptyHidden>>
       /\ last' = Idle("ignored")
     ELSE
       /\ currentFilter' = f
       /\ render(tasks, f, searchTerm)
       /\ last' = Idle("filter")
  /\ UNCHANGED <<tasks, idCounter, now, writable, localStorage, searchTerm, bodyLight,
                 themeBtnText, pc, source>>

\* the theme button's click listener
ThemeToggle ==
  /\ Ready
  /\ LET newTheme == IF ~bodyLight THEN LIGHT ELSE DARK IN
     /\ localStorage' =
          IF writable THEN setItem(localStorage, THEME_KEY, newTheme)
          ELSE localStorage
     /\ applyTheme(newTheme)
  /\ last' = Idle("theme")
  /\ UNCHANGED <<tasks, idCounter, now, writable, currentFilter, searchTerm, listRoot,
                 countEl, emptyHidden, pc, source>>

Next ==
  \/ \E defaults \in DefaultTasksInputs : Bootstrap(defaults)
  \/ \E resp \in FetchInputs : FetchDone(resp)
  \/ \E t \in FormInputs : Submit(t.title, t.desc)
  \/ \E t \in FormInputs : ApiAddTask(t.title, t.desc)
  \/ \E id \in IdInputs : ApiRemoveTask(id)
  \/ \E i \in 1..Len(listRoot) : ClickDelete(i)
  \/ \E i \in 1..Len(listRoot), answer \in PromptInputs :
        ClickEdit(i, answer)
  \/ \E i \in 1..Len(listRoot) : Change(i)
  \/ \E value \in SearchInputs : SearchInput(value)
  \/ \E f \in FilterInputs : FilterClick(f)
  \/ ThemeToggle

Spec == Init /\ [][Next]_vars

-----------------------------------------------------------------------------
(* The view alone: a collection, a filter and a search term drawn from     *)
(* bounded sets, and the two listeners that change the projection.         *)

\* The longest collection the view is projected from.
MaxViewLen == 3

ViewTasks ==
  { Task(StrId(<<"1">>), <<"A", "l">>, <<>>, TRUE, 7),
    Task(StrId(<<"2">>), <<"b">>, <<"A", "l">>, FALSE, 7),
    Task(StrId(<<"3">>), <<"B", "a", "L", "l">>, <<>>, FALSE, 7),
    Task(StrId(<<"4">>), <<"l", "a">>, <<"b">>, TRUE, 7) }

ViewCollections == UNION { [1..n -> ViewTasks] : n \in 0..MaxViewLen }

ViewSearchInputs == { <<>>, <<" ", "A", "L", " ">>, <<"l">>, <<"B">> }
ViewFilterInputs == { "", "all", "completed", "incomplete", "done" }

\* a running page whose collection is ts, as "Initialize" leaves it
InitView ==
  /\ tasks \in ViewCollections
  /\ now = StartNow
  /\ idCounter = now
  /\ writable = TRUE
  /\ localStorage =
       [k \in {STORAGE_KEY, THEME_KEY} |->
          IF k = STORAGE_KEY THEN Item(Stringify(tasks)) ELSE Null]
  /\ currentFilter = "all"
  /\ searchTerm = <<>>
  /\ listRoot = RenderList(tasks)
  /\ countEl = Decimal(Len(tasks))
  /\ emptyHidden = (Len(tasks) # 0)
  /\ bodyLight = FALSE
  /\ themeBtnText = "Night Mode"
  /\ pc = "ready"
  /\ source = "storage"
  /\ last = Idle("load")

NextView ==
  \/ \E value \in ViewSearchInputs : SearchInput(value)
  \/ \E f \in ViewFilterInputs : FilterClick(f)

SpecView == InitView /\ [][NextView]_vars

-----------------------------------------------------------------------------
(* Properties *)

TaskSlot == localStorage[STORAGE_KEY]
ThemeSlot == localStorage[THEME_KEY]

Mutators == {"addTask", "removeTask", "toggleComplete", "editTitle"}

\* the step just taken called a store operation that was refused by contract
RejectedCall(l) ==
  \/ l.fn = "addTask" /\ l.arg = "blank"
  \/ l.fn \in {"removeTask", "toggleComplete"} /\ l.arg = "missing"

\* C1: a rejected mutation changes nothing.  A step that calls addTask with a
\* title that is blank, or removeTask or toggleComplete with an id no task
\* has, returns false and leaves the collection and the task slot as they
\* were.
C1_RejectedChangesNothing ==
  [][RejectedCall(last') =>
       /\ ~last'.ret
       /\ tasks' = tasks
       /\ TaskSlot' = TaskSlot]_vars

\* C1 happens: toggleComplete was called with an id no task has (the change
\* listener passes the attribute text "1", the task's id is the number 1)
\* and returned false, on a collection that is not empty.
C1_Witness ==
  /\ last.fn = "toggleComplete" /\ last.arg = "missing" /\ ~last.ret
  /\ Len(tasks) > 0

\* C2: a step that calls addTask with a title that is not blank returns
\* true and yields the new task, not completed, in front of the tasks that
\* were there, unchanged and in their order, with an id no other task has.
C2_AddPrepends ==
  [][(last'.fn = "addTask" /\ last'.arg = "text") =>
       /\ last'.ret
       /\ Len(tasks') = Len(tasks) + 1
       /\ Tail(tasks') = tasks
       /\ ~tasks'[1].completed
       /\ \A i \in 2..Len(tasks') : tasks'[i].id # tasks'[1].id]_vars

\* C3: in every state no two tasks of the collection have the same id.
C3_UniqueIds ==
  \A i, j \in 1..Len(tasks) : i # j => tasks[i].id # tasks[j].id

\* the tasks the stored text holds, when it is the text of a collection
StoredTasks ==
  LET parsed == JsonParse(TaskSlot.text) IN
  IF TaskSlot.has /\ parsed.ok /\ parsed.isArray THEN parsed.val ELSE <<>>

\* C4: in every state no task whose title is blank is in the collection, in
\* the task slot, or in the list once the script has rendered it.
C4_NoBlankTitle ==
  /\ \A i \in 1..Len(tasks) : ~IsBlank(tasks[i].title)
  /\ \A i \in 1..Len(StoredTasks) : ~IsBlank(StoredTasks[i].title)
  /\ pc = "ready" => \A i \in 1..Len(listRoot) : ~IsBlank(listRoot[i].title)

\* the same letter, whatever the case
SameLetter(c, d) ==
  \/ c = d
  \/ \E i \in 1..Len(UpperChars) :
       {c, d} = {UpperChars[i], LowerChars[i]}

\* term occurs in s when case is ignored
OccursIgnoringCase(term, s) ==
  \E off \in 0..(Len(s) - Len(term)) :
    \A k \in 1..Len(term) : SameLetter(s[off + k], term[k])

\* the task passes the completion filter and the search
Matches(task, filter, term) ==
  /\ filter = "completed" => task.completed
  /\ filter = "incomplete" => ~task.completed
  /\ term # <<>> => OccursIgnoringCase(term, task.title)

\* the places in the collection of the tasks that are to be shown
Shown == { i \in 1..Len(tasks) : Matches(tasks[i], currentFilter, searchTerm) }

\* the k-th of them
NthShown(k) == CHOOSE i \in Shown : Cardinality({ j \in Shown : j < i }) = k - 1

\* C5: the list holds exactly the tasks that pass both the completion filter
\* and the search of the title, in the order of the collection.
C5_ProjectionIsFilterAndSearch ==
  /\ Len(listRoot) = Cardinality(Shown)
  /\ \A k \in 1..Len(listRoot) : listRoot[k] = RenderLi(tasks[NthShown(k)])

\* C5 happens: a filter and a search term are both set, and the list shows
\* some of the tasks and hides others.
C5_Witness ==
  /\ currentFilter = "completed" /\ searchTerm = <<"a", "l">>
  /\ Len(tasks) = 3 /\ Len(listRoot) = 1

\* the step just taken is an operation that completed
Completed ==
  \/ last.fn = "load" /\ pc = "ready"
  \/ last.fn \in Mutators /\ last.ret
  \/ last.fn \in {"search", "filter"}

\* C6: after every operation that completes, the count shows the number of
\* tasks of the projection and the empty-state indicator is visible exactly
\* when the projection is empty.
C6_IndicatorsFollowProjection ==
  Completed =>
    /\ countEl = Decimal(Cardinality(Shown))
    /\ emptyHidden = (Shown # {})

\* C6 happens: the only task was removed, the indicator is visible and the
\* count reads "0".
C6_Witness ==
  /\ last.fn = "removeTask" /\ last.ret /\ tasks = <<>>
  /\ countEl = <<"0">> /\ ~emptyHidden

\* C7: while setItem succeeds, after every mutation that was applied the
\* task slot holds the text of the whole collection, and step 1 of load()
\* gives back an equal collection from it.
C7_SlotRoundTrip ==
  (writable /\ last.fn \in Mutators /\ last.ret) =>
    /\ TaskSlot = Item(Stringify(tasks))
    /\ loadFromStorage(localStorage) = [done |-> TRUE, tasks |-> tasks]

\* C7 happens: the last task was removed with storage working, and the slot
\* holds the text of the empty collection.
C7_Witness ==
  /\ writable /\ last.fn = "removeTask" /\ last.ret /\ tasks = <<>>
  /\ TaskSlot = Item(<<"[", "]">>)

\* the step just taken called a store operation on something it applies to
AcceptedCall(l) ==
  \/ l.fn = "addTask" /\ l.arg = "text"
  \/ l.fn \in {"removeTask", "toggleComplete"} /\ l.arg = "present"

\* C8: when setItem throws, add, remove and toggle still change the
\* collection, render it and return true, and the task slot keeps its
\* content; the theme toggle still flips the theme shown.
C8_WriteFailureNotRaised ==
  [][~writable =>
       /\ AcceptedCall(last') =>
            /\ last'.ret
            /\ last'.fn = "addTask" =>
                 Len(tasks') = Len(tasks) + 1 /\ Tail(tasks') = tasks
            /\ last'.fn = "removeTask" => Len(tasks') = Len(tasks) - 1
            /\ last'.fn = "toggleComplete" =>
                 \E i \in 1..Len(tasks) :
                   tasks' = [tasks EXCEPT ![i].completed = last'.val]
            /\ listRoot' =
                 RenderList(Filtered(tasks', currentFilter', searchTerm'))
            /\ TaskSlot' = TaskSlot
       /\ last'.fn = "theme" =>
            /\ bodyLight' = ~bodyLight
            /\ ThemeSlot' = ThemeSlot]_vars

\* C8 happens: with setItem throwing, the only task was removed from the
\* collection and the slot still holds it.
C8_Witness ==
  /\ ~writable /\ last.fn = "removeTask" /\ last.ret /\ tasks = <<>>
  /\ TaskSlot = Item(Stringify(<<OldTask>>))

\* C9: the theme starts as light when the slot holds "light" and as dark
\* otherwise; every toggle flips it and, when setItem succeeds, stores it,
\* so that restoring from the slot gives the theme shown; a toggle leaves
\* the collection and the task slot alone.
C9_ThemeRoundTrip ==
  [][/\ (last'.fn = "load" /\ pc' = "ready") =>
          bodyLight' = (ThemeSlot' = Item(LIGHT))
     /\ last'.fn = "theme" =>
          /\ bodyLight' = ~bodyLight
          /\ writable =>
               /\ ThemeSlot' = Item(IF bodyLight' THEN LIGHT ELSE DARK)
               /\ restoredTheme(localStorage') =
                    (IF bodyLight' THEN LIGHT ELSE DARK)
          /\ tasks' = tasks
          /\ TaskSlot' = TaskSlot]_vars

\* C9 happens: the theme was toggled back to dark with storage working, on
\* a collection that is not empty.
C9_Witness ==
  /\ last.fn = "theme" /\ writable /\ ~bodyLight
  /\ ThemeSlot = Item(DARK) /\ Len(tasks) > 0

\* C10: no input is handled while load() is suspended, so every task that
\* is in the collection when fetch settles is in the collection that load()
\* leaves.
C10_AddedTaskSurvivesLoad ==
  [][(pc = "fetching" /\ pc' = "ready") =>
       \A i \in 1..Len(tasks) : \E j \in 1..Len(tasks') : tasks'[j] = tasks[i]]_vars

\* the task slot is present and its text parses to a sequence
SlotUsable(ls) ==
  LET raw == ls[STORAGE_KEY]
      parsed == JsonParse(raw.text)
  IN RawTruthy(raw) /\ parsed.ok /\ parsed.isArray

\* C11: load() takes the first of its sources that succeeds, in the order
\* task slot, window.DEFAULT_TASKS, pre-rendered items, default_task.json:
\* the slot is used only when it is present and parses to a sequence;
\* otherwise (absent, unparseable, or parsed to something else) the default
\* task sequence is used when there is one, then the items of the markup,
\* then the file; the collection is left empty only after the fetch.
C11_LoadFallbackOrder ==
  [][/\ \A d \in DefaultTasksInputs :
          Bootstrap(d) =>
            IF SlotUsable(localStorage) THEN
              /\ source' = "storage"
              /\ tasks' = JsonParse(TaskSlot.text).val
            ELSE IF d.kind = "array" THEN
              /\ source' = "defaults"
              /\ tasks' = NormalizeAll(d.items, idCounter, now).tasks
            ELSE IF Len(listRoot) # 0 THEN
              /\ source' = "markup"
              /\ tasks' = FromLis(listRoot, 1, idCounter, now).tasks
            ELSE pc' = "fetching"
     /\ (pc = "fetching" /\ pc' = "ready") => source' \in {"file", "empty"}]_vars

====
